---- MODULE Spec2Model ----
(***************************************************************************)
(* Fathom meetings proxy: the direct-HTTP server (src/unnamed/part_000).   *)
(*                                                                         *)
(* Three specifications over one set of variables:                         *)
(*   Spec           the server: concurrent GET /api/meetings handlers,     *)
(*                  POST /api/cache/clear, the process-wide cache and the  *)
(*                  wall clock;                                            *)
(*   SpecDrain      one call of fetchAllMeetings against every bounded     *)
(*                  upstream, with the log of its requests and waits;      *)
(*   SpecTranscript GET /api/meetings/:id/transcript for every bounded id. *)
(*                                                                         *)
(* A handler is cut at its awaits.  Node runs a handler from one await to  *)
(* the next without interruption, so one action is one such run.  A timer  *)
(* followed by the next fetch (await setTimeout; await fetch) is one       *)
(* suspension: the run between the two touches no shared state.            *)
(***************************************************************************)
EXTENDS Integers, Sequences, FiniteSets, TLC

VARIABLES
    upstream,         \* the upstream result set: a sequence of pages, each a sequence of raw records
    apiKeySet,        \* process.env.FATHOM_API_KEY is set
    sdk,              \* SpecSdk: one call of fetchAllMeetings of src/api/index.js
    simple,           \* SpecSimple: one GET /api/meetings of the simple server of src/README.md
    health,           \* SpecHealth: the answer of one GET /api/health
    loop,             \* SpecPage: one iteration of the drain loop on an arbitrary response body
    req,              \* the GET /api/meetings handlers, by arrival order
    meetingsCache,    \* part_000:75  Null or Some(list)
    cacheTimestamp,   \* part_000:76  Null or Some(ms)
    clock,            \* Date.now()
    ticks,            \* number of clock advances so far (bounded)
    writer,           \* history: the handler that wrote the slot last, 0 when the slot is empty
    clearedSinceGet,  \* history: a clear completed and no GET /api/meetings has arrived since
    attempts,         \* SpecDrain: the cursor of every page request issued, in order
    waits,            \* SpecDrain: every setTimeout delay awaited, in order (ms)
    returned,         \* SpecDrain: Null, or Some(the list fetchAllMeetings returned)
    thrown,           \* SpecDrain: Null, or Some(the error fetchAllMeetings threw)
    lastError,        \* SpecDrain: Null, or Some(the error of the latest failed page request)
    tr                \* the GET /api/meetings/:id/transcript handler

drainLog == <<attempts, waits, returned, thrown, lastError>>

vars == <<upstream, loop, health, apiKeySet, sdk, simple, req, meetingsCache, cacheTimestamp, clock, ticks, writer,
          clearedSinceGet, drainLog, tr>>

----------------------------------------------------------------------------
(* Bounds *)

NumRequests == 2      \* GET /api/meetings handlers in one behaviour
MaxPages    == 2      \* pages of the upstream result set
MaxTicks    == 2      \* clock advances in one behaviour
MaxIdLen    == 3      \* characters of the :id path parameter

Requests == 1..NumRequests

----------------------------------------------------------------------------
(* JavaScript values *)

\* null / a value, for the two cache variables
Null == {}
Some(v) == {v}
Val(o) == CHOOSE v \in o : TRUE

\* a null entry in a list of raw records
JsNull == "null"

\* raw records the upstream can return
RawItems == {"m1", "m2"}

RECURSIVE Pow2(_)
Pow2(k) == IF k = 0 THEN 1 ELSE 2 * Pow2(k - 1)

RECURSIVE Flatten(_)
Flatten(pages) ==
    IF pages = <<>> THEN <<>> ELSE Head(pages) \o Flatten(Tail(pages))

SeqsUpTo(S, n) == UNION {[1..k -> S] : k \in 0..n}

----------------------------------------------------------------------------
(* Constants of the program *)

CACHE_TTL == 5 * 60 * 1000

maxRetries == 5

INTER_PAGE_DELAY == 500

----------------------------------------------------------------------------
(* fathomRequest: what one upstream request can come back with *)

\* a non-2xx response: error.status = status, error.message =
\* "Fathom API error: <status> <statusText>. <body>"; body429 says the body
\* text contains the digits 429
HttpError(status, body429) ==
    [status |-> status, msg429 |-> (status = 429) \/ body429,
     message |-> "Fathom API error"]

\* fetch itself rejected: the re-thrown error has no status;
\* message = "Failed to fetch from Fathom API: <cause>"
NetError(cause429) ==
    [status |-> 0, msg429 |-> cause429, message |-> "Failed to fetch from Fathom API"]

\* faulty variant: the request goes out without a key
MissingKey_Ignored(keySet) == FALSE

\* the guard at the top of fathomRequest, before the fetch
MissingKey(keySet) == ~keySet

\* what the guard throws: no status, a message without the digits 429
ConfigError == [status |-> 0, msg429 |-> FALSE, message |-> "FATHOM_API_KEY is not set"]

ErrStatuses == {429, 503}

UpstreamErrors ==
    {HttpError(s, b) : s \in ErrStatuses, b \in BOOLEAN} \cup {NetError(b) : b \in BOOLEAN}

\* the page the upstream serves for a cursor (0 = no cursor): its items
\* and its next_cursor (0 = absent)
PageIndex(cursor) == IF cursor = 0 THEN 1 ELSE cursor
PageItems(cursor) == upstream[PageIndex(cursor)]
NextCursor(cursor) ==
    IF PageIndex(cursor) < Len(upstream) THEN PageIndex(cursor) + 1 ELSE 0

----------------------------------------------------------------------------
(* fetchAllMeetings, one loop iteration at a time *)

\* the catch clause's test for rate limiting
IsRateLimit(error) == error.status = 429 \/ error.msg429

\* faulty variant: the page is put in front of the accumulated list
AfterPage_Prepend(q, items, next) ==
    [q EXCEPT !.allMeetings = IF Len(items) > 0 THEN items \o q.allMeetings ELSE q.allMeetings,
              !.cursor = next,
              !.retryCount = 0]

\* faulty variant: the retry count survives a successful page
AfterPage_NoReset(q, items, next) ==
    [q EXCEPT !.allMeetings = IF Len(items) > 0 THEN q.allMeetings \o items ELSE q.allMeetings,
              !.cursor = next]

\* try-branch: append the page, take the cursor, reset the retry count
AfterPage(q, items, next) ==
    [q EXCEPT !.allMeetings = IF Len(items) > 0 THEN q.allMeetings \o items ELSE q.allMeetings,
              !.cursor = next,
              !.retryCount = 0]

\* faulty variant: the retry starts over without a cursor
AfterRateLimit_Restart(q) == [q EXCEPT !.retryCount = q.retryCount + 1, !.cursor = 0]

\* catch-branch on a rate-limit error
AfterRateLimit(q) == [q EXCEPT !.retryCount = q.retryCount + 1]

\* faulty variant: the comparison is strict
WillRetry_Strict(q) == q.retryCount + 1 < maxRetries

\* faulty variant: one retry too many
WillRetry_OneMore(q) == q.retryCount + 1 <= maxRetries + 1

\* retryCount++; retryCount <= maxRetries
WillRetry(q) == q.retryCount + 1 <= maxRetries

BackoffWait(retryCount) == Pow2(retryCount) * 1000

\* faulty variant: the delay is taken after every page, the last one too
PageWait_Always(next) == <<INTER_PAGE_DELAY>>

\* if (hasMore) the loop waits 500 ms; the waits taken after a page
PageWait(next) == IF next # 0 THEN <<INTER_PAGE_DELAY>> ELSE <<>>

----------------------------------------------------------------------------
(* serializeMeeting and the handler's map/filter *)

serializeMeeting(meeting) == IF meeting = JsNull THEN JsNull ELSE meeting

\* faulty variant: the map without the filter
SerializeAll_KeepNulls(meetings) ==
    [i \in 1..Len(meetings) |-> serializeMeeting(meetings[i])]

\* meetings.map(serializeMeeting).filter(m => m !== null)
SerializeAll(meetings) ==
    SelectSeq([i \in 1..Len(meetings) |-> serializeMeeting(meetings[i])],
              LAMBDA m : m # JsNull)

----------------------------------------------------------------------------
(* GET /api/meetings *)

IdleRequest ==
    [pc |-> "idle", now |-> 0, cursor |-> 0, allMeetings |-> <<>>, retryCount |-> 0,
     status |-> 0, body |-> <<>>, source |-> "", outcome |-> "",
     sawEmpty |-> FALSE, message |-> ""]

\* faulty variant: a slot aged exactly CACHE_TTL still counts as fresh
CacheFresh_Inclusive(now) ==
    /\ meetingsCache # Null
    /\ cacheTimestamp # Null
    /\ Val(cacheTimestamp) # 0
    /\ now - Val(cacheTimestamp) <= CACHE_TTL

\* the cache test of the handler; a timestamp of 0 is falsy
CacheFresh(now) ==
    /\ meetingsCache # Null
    /\ cacheTimestamp # Null
    /\ Val(cacheTimestamp) # 0
    /\ now - Val(cacheTimestamp) < CACHE_TTL

\* the handler has answered: its locals are gone, the record keeps the
\* response and when the request arrived
Finished(q) ==
    [q EXCEPT !.pc = "done", !.cursor = 0, !.allMeetings = <<>>, !.retryCount = 0]

\* faulty variant: the new list is appended to the list already in the slot
Respond_Merge(r, q, outcome) ==
    LET serializedMeetings == SerializeAll(q.allMeetings) IN
    /\ meetingsCache' = Some(IF meetingsCache = Null THEN serializedMeetings
                             ELSE Val(meetingsCache) \o serializedMeetings)
    /\ cacheTimestamp' = Some(q.now)
    /\ writer' = r
    /\ req' = [req EXCEPT ![r] = [Finished(q) EXCEPT !.status = 200,
                                                  !.body = serializedMeetings,
                                                  !.source = "drain", !.outcome = outcome]]

\* faulty variant: the list is stored but the timestamp is not
Respond_NoStamp(r, q, outcome) ==
    LET serializedMeetings == SerializeAll(q.allMeetings) IN
    /\ meetingsCache' = Some(serializedMeetings)
    /\ cacheTimestamp' = cacheTimestamp
    /\ writer' = r
    /\ req' = [req EXCEPT ![r] = [Finished(q) EXCEPT !.status = 200,
                                                  !.body = serializedMeetings,
                                                  !.source = "drain", !.outcome = outcome]]

\* the handler after fetchAllMeetings returned `meetings`: serialize, write
\* the slot, answer 200
Respond(r, q, outcome) ==
    LET serializedMeetings == SerializeAll(q.allMeetings) IN
    /\ meetingsCache' = Some(serializedMeetings)
    /\ cacheTimestamp' = Some(q.now)
    /\ writer' = r
    /\ req' = [req EXCEPT ![r] = [Finished(q) EXCEPT !.status = 200,
                                                  !.body = serializedMeetings,
                                                  !.source = "drain", !.outcome = outcome]]

\* faulty variant: every error is answered 500
RespondError_Always500(r, q, error) ==
    /\ req' = [req EXCEPT ![r] = [Finished(q) EXCEPT
                                       !.status = 500,
                                       !.message = error.message,
                                       !.source = "error", !.outcome = "aborted"]]
    /\ UNCHANGED <<meetingsCache, cacheTimestamp, writer>>

\* faulty variant: a failed drain empties the slot
RespondError_Clears(r, q, error) ==
    /\ req' = [req EXCEPT ![r] = [Finished(q) EXCEPT
                                       !.status = IF error.status # 0 THEN error.status ELSE 500,
                                       !.message = error.message,
                                       !.source = "error", !.outcome = "aborted"]]
    /\ meetingsCache' = Null
    /\ cacheTimestamp' = Null
    /\ UNCHANGED writer

\* the handler's catch clause: {error, message} with the error's status, or 500
RespondError(r, q, error) ==
    /\ req' = [req EXCEPT ![r] = [Finished(q) EXCEPT
                                       !.status = IF error.status # 0 THEN error.status ELSE 500,
                                       !.message = error.message,
                                       !.source = "error", !.outcome = "aborted"]]
    /\ UNCHANGED <<meetingsCache, cacheTimestamp, writer>>

\* faulty variant: a read renews the slot's timestamp
RespondFromCache_Touch(r, q) ==
    /\ req' = [req EXCEPT ![r] = [Finished(q) EXCEPT !.status = 200,
                                                  !.body = Val(meetingsCache),
                                                  !.source = "cache", !.outcome = "hit"]]
    /\ cacheTimestamp' = Some(q.now)
    /\ UNCHANGED <<meetingsCache, writer>>

\* the early return of the handler: the stored list is the answer
RespondFromCache(r, q) ==
    /\ req' = [req EXCEPT ![r] = [Finished(q) EXCEPT !.status = 200,
                                                  !.body = Val(meetingsCache),
                                                  !.source = "cache", !.outcome = "hit"]]
    /\ UNCHANGED <<meetingsCache, cacheTimestamp, writer>>

\* the request arrives: cache check, then either the cached answer or the
\* first page request
GetMeetings(r) ==
    /\ req[r].pc = "idle"
    /\ IF r = 1 THEN TRUE ELSE req[r - 1].pc # "idle"    \* handlers are numbered by arrival
    /\ LET now == clock
           q == [req[r] EXCEPT !.now = now, !.sawEmpty = (meetingsCache = Null)] IN
       IF CacheFresh(now)
       THEN RespondFromCache(r, q)
       ELSE IF MissingKey(apiKeySet)
       THEN RespondError(r, q, ConfigError)
       ELSE /\ req' = [req EXCEPT ![r] = [q EXCEPT !.pc = "fetch"]]
            /\ UNCHANGED <<meetingsCache, cacheTimestamp, writer>>
    /\ clearedSinceGet' = FALSE
    /\ UNCHANGED <<upstream, loop, health, apiKeySet, sdk, simple, clock, ticks>>

\* a page request succeeds
PageOk(r) ==
    /\ req[r].pc = "fetch"
    /\ LET q == AfterPage(req[r], PageItems(req[r].cursor), NextCursor(req[r].cursor)) IN
       IF q.cursor # 0
       THEN /\ req' = [req EXCEPT ![r] = q]
            /\ UNCHANGED <<meetingsCache, cacheTimestamp, writer>>
       ELSE Respond(r, q, "complete")
    /\ UNCHANGED <<upstream, loop, health, apiKeySet, sdk, simple, clock, ticks, clearedSinceGet>>

\* a page request fails and the catch clause takes it for rate limiting
PageRateLimitedWith(r, error) ==
    /\ req[r].pc = "fetch"
    /\ IsRateLimit(error)
    /\ LET q == AfterRateLimit(req[r]) IN
       IF WillRetry(req[r])
       THEN /\ req' = [req EXCEPT ![r] = q]
            /\ UNCHANGED <<meetingsCache, cacheTimestamp, writer>>
       ELSE Respond(r, q, "partial")
    /\ UNCHANGED <<upstream, loop, health, apiKeySet, sdk, simple, clock, ticks, clearedSinceGet>>

\* a page request fails with any other error: fetchAllMeetings throws
PageFailedWith(r, error) ==
    /\ req[r].pc = "fetch"
    /\ ~IsRateLimit(error)
    /\ RespondError(r, req[r], error)
    /\ UNCHANGED <<upstream, loop, health, apiKeySet, sdk, simple, clock, ticks, clearedSinceGet>>

PageRateLimited(r) == \E error \in UpstreamErrors : PageRateLimitedWith(r, error)

PageFailed(r) == \E error \in UpstreamErrors : PageFailedWith(r, error)

----------------------------------------------------------------------------
(* POST /api/cache/clear *)

\* faulty variant: the list is dropped and the timestamp is kept
ClearCache_KeepStamp ==
    /\ meetingsCache' = Null
    /\ cacheTimestamp' = cacheTimestamp
    /\ writer' = 0
    /\ clearedSinceGet' = TRUE
    /\ UNCHANGED <<upstream, loop, health, apiKeySet, sdk, simple, req, clock, ticks>>

\* both variables are set to null, then the answer is sent
ClearCache ==
    /\ meetingsCache' = Null
    /\ cacheTimestamp' = Null
    /\ writer' = 0
    /\ clearedSinceGet' = TRUE
    /\ UNCHANGED <<upstream, loop, health, apiKeySet, sdk, simple, req, clock, ticks>>

----------------------------------------------------------------------------
(* The wall clock *)

TickSteps == {1, CACHE_TTL - 1}

Tick ==
    /\ ticks < MaxTicks
    /\ \E d \in TickSteps : clock' = clock + d
    /\ ticks' = ticks + 1
    /\ UNCHANGED <<upstream, loop, health, apiKeySet, sdk, simple, req, meetingsCache, cacheTimestamp, writer, clearedSinceGet>>

----------------------------------------------------------------------------
(* The server *)

\* the result set the server's drains see: one page with a null entry
ServerUpstream == <<<<"m1", JsNull, "m2">>>>

IdleTranscript ==
    [pc |-> "idle", id |-> <<>>, requested |-> Null, status |-> 0,
     recording_id |-> Null, transcript |-> Null, message |-> FALSE,
     answer |-> Null, failure |-> Null]

\* JavaScript values of a response body: [t, v] with v the elements of an
\* array; an object without further structure has t = "object"
Undefined == [t |-> "undefined", v |-> <<>>]
NullValue == [t |-> "null", v |-> <<>>]
Array(v) == [t |-> "array", v |-> v]
Object == [t |-> "object", v |-> <<>>]

\* truthiness of such a value: arrays and objects are truthy, empty ones too
Truthy(x) == x.t \notin {"undefined", "null"}

\* truthiness of a string-valued field; "undefined" and "null" stand for a
\* missing and a null field
TruthyString(c) == c \notin {"undefined", "null", ""}

\* a || b
Or(a, b) == IF TruthyString(a) THEN a ELSE b

NoFields ==
    [items |-> Undefined, data |-> [t |-> "undefined", v |-> <<>>, items |-> Undefined],
     next_cursor |-> "undefined", cursor |-> "undefined",
     pagination |-> [t |-> "undefined", next_cursor |-> "undefined"]]

\* a body with the fields f and the type t (array bodies have elements v)
Body(t, v, f) ==
    [t |-> t, v |-> v, items |-> f.items, data |-> f.data, next_cursor |-> f.next_cursor,
     cursor |-> f.cursor, pagination |-> f.pagination]

ItemsValues == {Undefined, NullValue, Array(<<>>), Array(<<"m1">>), Object}

DataValues ==
    {[t |-> "undefined", v |-> <<>>, items |-> Undefined],
     [t |-> "null", v |-> <<>>, items |-> Undefined],
     [t |-> "array", v |-> <<"m2">>, items |-> Undefined],
     [t |-> "object", v |-> <<>>, items |-> Undefined],
     [t |-> "object", v |-> <<>>, items |-> Array(<<"m3">>)]}

PaginationValues ==
    {[t |-> "undefined", next_cursor |-> "undefined"],
     [t |-> "null", next_cursor |-> "undefined"],
     [t |-> "object", next_cursor |-> "undefined"],
     [t |-> "object", next_cursor |-> "p1"]}

\* the bodies a 200 answer can carry: JSON objects, arrays, null, a string
Bodies ==
    {Body("object", <<>>, f) :
        f \in [items : ItemsValues, data : DataValues,
               next_cursor : {"undefined", "", "n1"}, cursor : {"undefined", "k1"},
               pagination : PaginationValues]}
    \cup {Body("array", v, NoFields) : v \in {<<>>, <<"m1">>}}
    \cup {Body("null", <<>>, NoFields), Body("string", <<>>, NoFields)}

\* the if/else-if chain that picks the items; reading a property of null
\* throws a TypeError
ExtractItems(response) ==
    IF response.t = "array" THEN [error |-> FALSE, items |-> Array(response.v)]
    ELSE IF response.t = "null" THEN [error |-> TRUE, items |-> Array(<<>>)]
    ELSE IF Truthy(response.items) THEN [error |-> FALSE, items |-> response.items]
    ELSE IF Truthy(response.data) /\ response.data.t = "array"
    THEN [error |-> FALSE, items |-> Array(response.data.v)]
    ELSE IF Truthy(response.data) /\ Truthy(response.data.items)
    THEN [error |-> FALSE, items |-> response.data.items]
    ELSE [error |-> FALSE, items |-> Array(<<>>)]

\* if (items && items.length > 0) allMeetings.push(...items)
PushItems(allMeetings, items) ==
    IF Truthy(items) /\ items.t = "array" /\ Len(items.v) > 0
    THEN allMeetings \o items.v
    ELSE allMeetings

\* response.pagination?.next_cursor
PaginationCursor(response) ==
    IF response.pagination.t \in {"undefined", "null"} THEN "undefined"
    ELSE response.pagination.next_cursor

\* faulty variant: cursor is looked at before next_cursor
ExtractCursor_CursorFirst(response) ==
    Or(Or(Or(response.cursor, response.next_cursor), PaginationCursor(response)), "null")

\* response.next_cursor || response.cursor || response.pagination?.next_cursor || null
ExtractCursor(response) ==
    Or(Or(Or(response.next_cursor, response.cursor), PaginationCursor(response)), "null")

\* cursor !== null && cursor !== undefined
HasMore(cursor) == cursor \notin {"null", "undefined"}

\* queryParams.set('cursor', cursor): one cursor parameter, the filters stay
QuerySetCursor(query, cursor) == [query EXCEPT !.cursor = <<cursor>>]

\* the query strings the loop can hold when a page arrives: with or without
\* filters, without a cursor (first page) or with the one set before
Queries ==
    [filters : {<<>>, <<"teams=sales">>}, cursor : {<<>>, <<"c0">>}]

IdleLoop ==
    [pc |-> "idle", body |-> Body("array", <<>>, NoFields),
     query0 |-> [filters |-> <<>>, cursor |-> <<>>],
     query |-> [filters |-> <<>>, cursor |-> <<>>],
     allMeetings |-> <<>>, cursor |-> "null", hasMore |-> TRUE, waited |-> 0,
     thrown |-> FALSE]

IdleSdk ==
    [pc |-> "idle", response |-> 0, allMeetings |-> <<>>, retryCount |-> 0,
     requests |-> <<>>, returned |-> Null, thrown |-> Null]

IdleSimple ==
    [pc |-> "idle", now |-> 0, page |-> 0, allMeetings |-> <<>>, status |-> 0,
     body |-> <<>>, failedPage |-> 0]

IdleHealth ==
    [pc |-> "idle", hasCache |-> FALSE, cacheSize |-> 0, cacheAge |-> Null,
     apiKeySet |-> FALSE]

InitForLoop(u, keySet, l) ==
    /\ upstream = u
    /\ loop = l
    /\ health = IdleHealth
    /\ apiKeySet = keySet
    /\ sdk = IdleSdk
    /\ simple = IdleSimple
    /\ req = [r \in Requests |-> IdleRequest]
    /\ meetingsCache = Null
    /\ cacheTimestamp = Null
    /\ clock = 1
    /\ ticks = 0
    /\ writer = 0
    /\ clearedSinceGet = FALSE
    /\ attempts = <<>>
    /\ waits = <<>>
    /\ returned = Null
    /\ thrown = Null
    /\ lastError = Null
    /\ tr = IdleTranscript

InitFor(u, keySet) == InitForLoop(u, keySet, IdleLoop)

InitWith(u) == InitFor(u, TRUE)

Init == InitWith(ServerUpstream)

Next ==
    \/ \E r \in Requests : GetMeetings(r) /\ UNCHANGED <<drainLog, tr>>
    \/ \E r \in Requests : PageOk(r) /\ UNCHANGED <<drainLog, tr>>
    \/ \E r \in Requests : PageRateLimited(r) /\ UNCHANGED <<drainLog, tr>>
    \/ \E r \in Requests : PageFailed(r) /\ UNCHANGED <<drainLog, tr>>
    \/ ClearCache /\ UNCHANGED <<drainLog, tr>>
    \/ Tick /\ UNCHANGED <<drainLog, tr>>

Spec == Init /\ [][Next]_vars

-----------------------------------------------------------------------------
(* GET /api/health, once, at any moment of the life of a server that takes
   one GET /api/meetings, cache clears and clock advances *)

\* faulty variant: a stale slot is reported as no cache
HealthCache_FreshOnly(cache, timestamp, now) ==
    [hasCache |-> cache # Null /\ timestamp # Null /\ now - Val(timestamp) < CACHE_TTL,
     cacheSize |-> IF cache # Null THEN Len(Val(cache)) ELSE 0,
     cacheAge |-> IF timestamp = Null THEN Null
                  ELSE IF Val(timestamp) = 0 THEN Null
                  ELSE Some((now - Val(timestamp)) \div 1000)]

\* the cache object of the answer: meetingsCache !== null, its length or 0,
\* Math.floor((Date.now() - cacheTimestamp) / 1000) or null
HealthCache(cache, timestamp, now) ==
    [hasCache |-> cache # Null,
     cacheSize |-> IF cache # Null THEN Len(Val(cache)) ELSE 0,
     cacheAge |-> IF timestamp = Null THEN Null
                  ELSE IF Val(timestamp) = 0 THEN Null
                  ELSE Some((now - Val(timestamp)) \div 1000)]

\* the handler: it reads the slot and the clock and answers
Health ==
    /\ health.pc = "idle"
    /\ LET cache == HealthCache(meetingsCache, cacheTimestamp, clock) IN
       health' = [pc |-> "done", hasCache |-> cache.hasCache, cacheSize |-> cache.cacheSize,
                  cacheAge |-> cache.cacheAge, apiKeySet |-> apiKeySet]
    /\ UNCHANGED <<upstream, loop, apiKeySet, sdk, simple, req, meetingsCache,
                   cacheTimestamp, clock, ticks, writer, clearedSinceGet, drainLog, tr>>

NextHealth ==
    \/ GetMeetings(1) /\ UNCHANGED <<drainLog, tr>>
    \/ PageOk(1) /\ UNCHANGED <<drainLog, tr>>
    \/ PageRateLimited(1) /\ UNCHANGED <<drainLog, tr>>
    \/ PageFailed(1) /\ UNCHANGED <<drainLog, tr>>
    \/ ClearCache /\ UNCHANGED <<drainLog, tr>>
    \/ Tick /\ UNCHANGED <<drainLog, tr>>
    \/ Health

SpecHealth == Init /\ [][NextHealth]_vars

----------------------------------------------------------------------------
(* parseInt(string), radix undefined; a string is a sequence of characters *)

HexDigits == <<"0", "1", "2", "3", "4", "5", "6", "7", "8", "9", "a", "b", "c", "d", "e", "f">>

IsDigit(c, radix) == \E i \in 1..radix : HexDigits[i] = c

DigitVal(c) == (CHOOSE i \in 1..Len(HexDigits) : HexDigits[i] = c) - 1

RECURSIVE TrimStart(_)
TrimStart(s) == IF s # <<>> /\ Head(s) = " " THEN TrimStart(Tail(s)) ELSE s

\* the longest prefix of s made of digits of the radix
RECURSIVE DigitPrefix(_, _)
DigitPrefix(s, radix) ==
    IF s # <<>> /\ IsDigit(Head(s), radix)
    THEN <<Head(s)>> \o DigitPrefix(Tail(s), radix)
    ELSE <<>>

RECURSIVE DigitsValue(_, _, _)
DigitsValue(s, radix, acc) ==
    IF s = <<>> THEN acc ELSE DigitsValue(Tail(s), radix, acc * radix + DigitVal(Head(s)))

\* Null is NaN
parseInt(string) ==
    LET trimmed == TrimStart(string)
        negative == trimmed # <<>> /\ Head(trimmed) = "-"
        unsigned == IF negative THEN Tail(trimmed) ELSE trimmed
        hex == Len(unsigned) >= 2 /\ unsigned[1] = "0" /\ unsigned[2] = "x"
        radix == IF hex THEN 16 ELSE 10
        rest == IF hex THEN Tail(Tail(unsigned)) ELSE unsigned
        digits == DigitPrefix(rest, radix)
    IN  IF digits = <<>> THEN Null
        ELSE Some((IF negative THEN -1 ELSE 1) * DigitsValue(digits, radix, 0))

----------------------------------------------------------------------------
(* GET /api/meetings/:id/transcript *)

IdChars == {"0", "7", "a", "x", "-", " "}

\* the values of the :id path parameter (never empty)
IdStrings == {s \in SeqsUpTo(IdChars, MaxIdLen) : Len(s) >= 1}

\* success bodies of the upstream: where the transcript sits, and whether it
\* is the empty string
TranscriptShapes == {"transcript", "data", "result", "string", "other"}
TranscriptTexts == {"", "hello"}
TranscriptBodies == [shape : TranscriptShapes, text : TranscriptTexts]

\* the extraction chain: a truthy transcript field at one of three places,
\* else the body itself
ExtractTranscript(response) ==
    IF response.shape \in {"transcript", "data", "result"} /\ response.text # ""
    THEN [whole |-> FALSE, text |-> response.text]
    ELSE IF response.shape = "string"
    THEN [whole |-> FALSE, text |-> response.text]
    ELSE [whole |-> TRUE, text |-> response.text]

\* !transcript: only the empty string is falsy here, a body object never is
Falsy(transcript) == ~transcript.whole /\ transcript.text = ""

TranscriptErrors == UpstreamErrors \cup {HttpError(404, b) : b \in BOOLEAN}

\* faulty variant: the upstream's status is passed on, as GET /api/meetings does
TranscriptErrorStatus_PassOn(error) == IF error.status # 0 THEN error.status ELSE 500

\* the handler's catch clause: 404 stays 404, everything else is 500
TranscriptErrorStatus(error) == IF error.status = 404 THEN 404 ELSE 500

\* the request arrives: parse the id, answer 400 or ask the upstream
GetTranscript(id) ==
    /\ tr.pc = "idle"
    /\ LET meetingId == id
           recordingId == parseInt(meetingId) IN
       IF recordingId = Null
       THEN tr' = [tr EXCEPT !.pc = "done", !.id = id, !.status = 400,
                             !.recording_id = Some(meetingId)]
       ELSE IF MissingKey(apiKeySet)
       THEN tr' = [tr EXCEPT !.pc = "done", !.id = id, !.status = 500, !.message = TRUE]
       ELSE tr' = [tr EXCEPT !.pc = "fetch", !.id = id, !.requested = recordingId]
    /\ UNCHANGED <<upstream, loop, health, apiKeySet, sdk, simple, req, meetingsCache, cacheTimestamp, clock, ticks, writer,
                   clearedSinceGet, drainLog>>

\* the upstream answers with a body
TranscriptOk ==
    /\ tr.pc = "fetch"
    /\ \E response \in TranscriptBodies :
        LET transcript == ExtractTranscript(response) IN
        IF Falsy(transcript)
        THEN tr' = [tr EXCEPT !.pc = "done", !.status = 404, !.recording_id = Some(tr.id),
                              !.answer = Some(response)]
        ELSE tr' = [tr EXCEPT !.pc = "done", !.status = 200, !.transcript = Some(transcript),
                              !.answer = Some(response)]
    /\ UNCHANGED <<upstream, loop, health, apiKeySet, sdk, simple, req, meetingsCache, cacheTimestamp, clock, ticks, writer,
                   clearedSinceGet, drainLog>>

\* the upstream request fails
TranscriptFailed ==
    /\ tr.pc = "fetch"
    /\ \E error \in TranscriptErrors :
        IF TranscriptErrorStatus(error) = 404
        THEN tr' = [tr EXCEPT !.pc = "done", !.status = 404, !.recording_id = Some(tr.id),
                              !.failure = Some(error)]
        ELSE tr' = [tr EXCEPT !.pc = "done", !.status = TranscriptErrorStatus(error),
                              !.message = TRUE, !.failure = Some(error)]
    /\ UNCHANGED <<upstream, loop, health, apiKeySet, sdk, simple, req, meetingsCache, cacheTimestamp, clock, ticks, writer,
                   clearedSinceGet, drainLog>>

NextTranscript ==
    \/ \E id \in IdStrings : GetTranscript(id)
    \/ TranscriptOk
    \/ TranscriptFailed

SpecTranscript == Init /\ [][NextTranscript]_vars

----------------------------------------------------------------------------
(* One call of fetchAllMeetings, with the log of what it did *)

\* a page holds no record, or some records in any order, repeats included
PageBodies == SeqsUpTo(RawItems, Cardinality(RawItems))

\* every result set of 1..MaxPages pages
DrainUpstreams == {u \in SeqsUpTo(PageBodies, MaxPages) : Len(u) >= 1}

InitDrain == \E u \in DrainUpstreams : InitWith(u)

\* the call: the cache is empty, so the handler issues the first page
\* request, without a cursor; without a key fathomRequest throws instead
DrainCall ==
    /\ GetMeetings(1)
    /\ IF req'[1].pc = "fetch"
       THEN /\ attempts' = Append(attempts, req'[1].cursor)
            /\ UNCHANGED <<thrown, lastError>>
       ELSE /\ thrown' = Some(ConfigError)
            /\ lastError' = Some(ConfigError)
            /\ UNCHANGED attempts
    /\ UNCHANGED <<waits, returned, tr>>

\* a page arrives; with a cursor: wait 500 ms and request the next page;
\* without: return the list
DrainPageOk ==
    /\ PageOk(1)
    /\ LET q == AfterPage(req[1], PageItems(req[1].cursor), NextCursor(req[1].cursor)) IN
       /\ waits' = waits \o PageWait(q.cursor)
       /\ IF q.cursor # 0
          THEN /\ attempts' = Append(attempts, q.cursor)
               /\ UNCHANGED returned
          ELSE /\ returned' = Some(q.allMeetings)
               /\ UNCHANGED attempts
    /\ UNCHANGED <<thrown, lastError, tr>>

\* a rate-limit error: back off and request the same page again, or give up
\* and return what has been accumulated
DrainRateLimited ==
    \E error \in UpstreamErrors :
        /\ PageRateLimitedWith(1, error)
        /\ lastError' = Some(error)
        /\ IF WillRetry(req[1])
           THEN /\ waits' = Append(waits, BackoffWait(req[1].retryCount + 1))
                /\ attempts' = Append(attempts, req'[1].cursor)
                /\ UNCHANGED returned
           ELSE /\ returned' = Some(req[1].allMeetings)
                /\ UNCHANGED <<waits, attempts>>
        /\ UNCHANGED <<thrown, tr>>

\* any other error: thrown to the caller
DrainFailed ==
    \E error \in UpstreamErrors :
        /\ PageFailedWith(1, error)
        /\ lastError' = Some(error)
        /\ thrown' = Some(error)
        /\ UNCHANGED <<attempts, waits, returned, tr>>

NextDrain ==
    \/ DrainCall
    \/ DrainPageOk
    \/ DrainRateLimited
    \/ DrainFailed

SpecDrain == InitDrain /\ [][NextDrain]_vars

\* every request is answered or fails, and every timer fires: a drain that
\* can take a step eventually takes one
\* termination does not depend on what a page holds: pages of 0 or 1 record
TerminationUpstreams == {u \in DrainUpstreams : \A i \in 1..Len(u) : Len(u[i]) <= 1}

InitDrainFair == \E u \in TerminationUpstreams : InitWith(u)

SpecDrainFair == InitDrainFair /\ [][NextDrain]_vars /\ WF_vars(NextDrain)

-----------------------------------------------------------------------------
(* The server started with or without FATHOM_API_KEY: one GET /api/meetings
   and one transcript request *)

InitCredential == \E keySet \in BOOLEAN : InitFor(ServerUpstream, keySet)

\* one id that parses and one that does not
CredentialIds == {<<"7">>, <<"a">>}

NextCredential ==
    \/ NextDrain
    \/ \E id \in CredentialIds : GetTranscript(id)
    \/ TranscriptOk
    \/ TranscriptFailed

SpecCredential == InitCredential /\ [][NextCredential]_vars

-----------------------------------------------------------------------------
(* fetchAllMeetings of the SDK-based server, src/api/index.js.  The client
   fathom.listMeetings is a dependency; a call of it is a request that
   resolves with a page or rejects with an error.  sdk.response is the index
   of the page held by the local variable response. *)

\* the top of the loop body: the items of the page held in response are
\* appended to allMeetings
SdkPushItems(s) ==
    LET items == upstream[s.response] IN
    [s EXCEPT !.allMeetings = IF Len(items) > 0 THEN s.allMeetings \o items
                                                ELSE s.allMeetings]

\* the page held in response has a next page to ask for
SdkHasNext(s) == s.response < Len(upstream)

\* the rest of the loop body up to the next await: push the items, then
\* wait 500 ms and ask for the next page, or break and return the list
SdkLoopBody(s) ==
    LET t == SdkPushItems(s) IN
    IF SdkHasNext(t)
    THEN [t EXCEPT !.pc = "next", !.requests = Append(t.requests, t.response + 1)]
    ELSE [t EXCEPT !.pc = "done", !.returned = Some(t.allMeetings)]

\* fetchAllMeetings is called: the initial request, outside the loop
SdkCall ==
    /\ sdk.pc = "idle"
    /\ sdk' = [sdk EXCEPT !.pc = "first", !.requests = <<1>>]
    /\ UNCHANGED <<upstream, loop, health, apiKeySet, simple, req, meetingsCache, cacheTimestamp, clock,
                   ticks, writer, clearedSinceGet, drainLog, tr>>

\* the initial request resolves: the loop is entered with the first page
SdkFirstOk ==
    /\ sdk.pc = "first"
    /\ sdk' = SdkLoopBody([sdk EXCEPT !.response = 1])
    /\ UNCHANGED <<upstream, loop, health, apiKeySet, simple, req, meetingsCache, cacheTimestamp, clock,
                   ticks, writer, clearedSinceGet, drainLog, tr>>

\* the initial request rejects: it is not inside the loop's try, so the
\* outer catch logs the error and throws it again, whatever it is
SdkFirstFailed ==
    /\ sdk.pc = "first"
    /\ \E error \in UpstreamErrors :
          sdk' = [sdk EXCEPT !.pc = "done", !.thrown = Some(error)]
    /\ UNCHANGED <<upstream, loop, health, apiKeySet, simple, req, meetingsCache, cacheTimestamp, clock,
                   ticks, writer, clearedSinceGet, drainLog, tr>>

\* the request for the next page resolves: response is replaced, the retry
\* count reset, and the loop body runs on the new page
SdkNextOk ==
    /\ sdk.pc = "next"
    /\ sdk' = SdkLoopBody([sdk EXCEPT !.response = sdk.response + 1, !.retryCount = 0])
    /\ UNCHANGED <<upstream, loop, health, apiKeySet, simple, req, meetingsCache, cacheTimestamp, clock,
                   ticks, writer, clearedSinceGet, drainLog, tr>>

\* the request for the next page rejects with a rate-limit error: response
\* still holds the page before; after the backoff wait `continue` runs the
\* loop body on it again; with the retries used up the loop is left
SdkNextRateLimited ==
    /\ sdk.pc = "next"
    /\ \E error \in UpstreamErrors :
          /\ IsRateLimit(error)
          /\ IF WillRetry(sdk)
             THEN sdk' = SdkLoopBody(AfterRateLimit(sdk))
             ELSE sdk' = [AfterRateLimit(sdk) EXCEPT !.pc = "done",
                                                     !.returned = Some(sdk.allMeetings)]
    /\ UNCHANGED <<upstream, loop, health, apiKeySet, simple, req, meetingsCache, cacheTimestamp, clock,
                   ticks, writer, clearedSinceGet, drainLog, tr>>

\* the request for the next page rejects with another error: thrown
SdkNextFailed ==
    /\ sdk.pc = "next"
    /\ \E error \in UpstreamErrors :
          /\ ~IsRateLimit(error)
          /\ sdk' = [sdk EXCEPT !.pc = "done", !.thrown = Some(error)]
    /\ UNCHANGED <<upstream, loop, health, apiKeySet, simple, req, meetingsCache, cacheTimestamp, clock,
                   ticks, writer, clearedSinceGet, drainLog, tr>>

NextSdk ==
    \/ SdkCall
    \/ SdkFirstOk
    \/ SdkFirstFailed
    \/ SdkNextOk
    \/ SdkNextRateLimited
    \/ SdkNextFailed

SpecSdk == InitDrain /\ [][NextSdk]_vars

-----------------------------------------------------------------------------
(* The simple server of src/README.md: class Fathom, getAllMeetings and
   GET /api/meetings.  simple.page is the index of the page held by
   currentData; the slot is this server's meetingsCache / cacheTimestamp. *)

\* for await (const page of result): the items of the page are pushed
SimplePushPage(s, page) ==
    [s EXCEPT !.page = page, !.allMeetings = s.allMeetings \o upstream[page]]

\* the loop is over: getAllMeetings returns, the handler stores the list
\* and answers it
SimpleRespond(s) ==
    /\ simple' = [s EXCEPT !.pc = "done", !.status = 200, !.body = s.allMeetings]
    /\ meetingsCache' = Some(s.allMeetings)
    /\ cacheTimestamp' = Some(s.now)

\* the handler's catch clause
SimpleRespondError(s) ==
    /\ simple' = [s EXCEPT !.pc = "done", !.status = 500]
    /\ UNCHANGED <<meetingsCache, cacheTimestamp>>

\* after a page is yielded and pushed: no cursor ends the iteration, a
\* cursor means 500 ms of waiting and the request for the next page
SimpleAfterYield(s) ==
    IF NextCursor(s.page) = 0
    THEN SimpleRespond(s)
    ELSE /\ simple' = [s EXCEPT !.pc = "next"]
         /\ UNCHANGED <<meetingsCache, cacheTimestamp>>

\* GET /api/meetings arrives: answered from a fresh slot, else the first
\* request of listMeetings goes out
SimpleGet ==
    /\ simple.pc = "idle"
    /\ LET s == [simple EXCEPT !.now = clock] IN
       IF CacheFresh(s.now)
       THEN simple' = [s EXCEPT !.pc = "done", !.status = 200, !.body = Val(meetingsCache)]
       ELSE simple' = [s EXCEPT !.pc = "first"]
    /\ UNCHANGED <<upstream, loop, health, apiKeySet, sdk, req, meetingsCache, cacheTimestamp, clock,
                   ticks, writer, clearedSinceGet, drainLog, tr>>

\* the first request is answered with a page
SimpleFirstOk ==
    /\ simple.pc = "first"
    /\ SimpleAfterYield(SimplePushPage(simple, 1))
    /\ UNCHANGED <<upstream, loop, health, apiKeySet, sdk, req, clock, ticks, writer, clearedSinceGet,
                   drainLog, tr>>

\* the first request fails: !response.ok throws, and so does a rejected fetch
SimpleFirstFailed ==
    /\ simple.pc = "first"
    /\ \E error \in UpstreamErrors : SimpleRespondError(simple)
    /\ UNCHANGED <<upstream, loop, health, apiKeySet, sdk, req, clock, ticks, writer, clearedSinceGet,
                   drainLog, tr>>

\* the request for the next page is answered with a page
SimpleNextOk ==
    /\ simple.pc = "next"
    /\ SimpleAfterYield(SimplePushPage(simple, simple.page + 1))
    /\ UNCHANGED <<upstream, loop, health, apiKeySet, sdk, req, clock, ticks, writer, clearedSinceGet,
                   drainLog, tr>>

\* the request for the next page is answered with a non-success status:
\* `if (!nextResponse.ok) break` ends the iteration without an error
SimpleNextNotOk ==
    /\ simple.pc = "next"
    /\ \E error \in UpstreamErrors :
          /\ error.status # 0
          /\ SimpleRespond([simple EXCEPT !.failedPage = simple.page + 1])
    /\ UNCHANGED <<upstream, loop, health, apiKeySet, sdk, req, clock, ticks, writer, clearedSinceGet,
                   drainLog, tr>>

\* the request for the next page gets no answer: fetch rejects, the
\* generator throws, and the error reaches the handler
SimpleNextRejected ==
    /\ simple.pc = "next"
    /\ \E error \in UpstreamErrors :
          /\ error.status = 0
          /\ SimpleRespondError(simple)
    /\ UNCHANGED <<upstream, loop, health, apiKeySet, sdk, req, clock, ticks, writer, clearedSinceGet,
                   drainLog, tr>>

NextSimple ==
    \/ SimpleGet
    \/ SimpleFirstOk
    \/ SimpleFirstFailed
    \/ SimpleNextOk
    \/ SimpleNextNotOk
    \/ SimpleNextRejected

SpecSimple == InitDrain /\ [][NextSimple]_vars

-----------------------------------------------------------------------------
(* One iteration of the loop of fetchAllMeetings on every kind of response
   body: the extraction of the items and of the cursor *)

InitPage ==
    \E body \in Bodies, query \in Queries :
        InitForLoop(ServerUpstream, TRUE,
                    [IdleLoop EXCEPT !.pc = "fetch", !.body = body, !.query0 = query,
                                     !.query = query, !.allMeetings = <<"m0">>])

\* the try block from the answer to the end of the iteration
PageBodyOk ==
    /\ loop.pc = "fetch"
    /\ ~ExtractItems(loop.body).error
    /\ LET response == loop.body
           items == ExtractItems(response).items
           cursor == ExtractCursor(response)
           hasMore == HasMore(cursor) IN
       loop' = [loop EXCEPT !.pc = "done",
                            !.allMeetings = PushItems(loop.allMeetings, items),
                            !.cursor = cursor,
                            !.hasMore = hasMore,
                            !.query = IF hasMore THEN QuerySetCursor(loop.query, cursor)
                                                 ELSE loop.query,
                            !.waited = IF hasMore THEN INTER_PAGE_DELAY ELSE 0]
    /\ UNCHANGED <<upstream, health, apiKeySet, sdk, simple, req, meetingsCache, cacheTimestamp,
                   clock, ticks, writer, clearedSinceGet, drainLog, tr>>

\* the try block throws a TypeError: its message has no 429 in it, so the
\* catch clause throws it on and the drain is over
PageBodyThrows ==
    /\ loop.pc = "fetch"
    /\ ExtractItems(loop.body).error
    /\ loop' = [loop EXCEPT !.pc = "done", !.thrown = TRUE, !.hasMore = FALSE]
    /\ UNCHANGED <<upstream, health, apiKeySet, sdk, simple, req, meetingsCache, cacheTimestamp,
                   clock, ticks, writer, clearedSinceGet, drainLog, tr>>

NextPage ==
    \/ PageBodyOk
    \/ PageBodyThrows

SpecPage == InitPage /\ [][NextPage]_vars

----------------------------------------------------------------------------
(* Properties *)

\* the handler r takes its request in this step
Arrives(r) == req[r].pc = "idle" /\ req'[r].pc # "idle"

\* C1: whenever the cache slot is non-empty, its records were written by a
\* drain that ended on a successful page without a cursor; a drain that gave
\* up on rate limiting never populates the cache.  (Spec)
C1_CacheHoldsCompleteDrain ==
    meetingsCache # Null => (writer # 0 /\ req[writer].outcome = "complete")

\* C2: when every page request succeeds, fetchAllMeetings returns exactly
\* the concatenation of the pages' items, in page order and in item order.
\* (SpecDrain)
C2_DrainConcatenatesPages ==
    (req[1].outcome = "complete" /\ lastError = Null) =>
        /\ returned = Some(Flatten(upstream))
        /\ thrown = Null
        /\ attempts = [i \in 1..Len(upstream) |-> IF i = 1 THEN 0 ELSE i]

C2_Witness ==
    /\ req[1].outcome = "complete"
    /\ lastError = Null
    /\ upstream = <<<<"m1", "m2">>, <<"m2", "m1">>>>

\* C3: a page that is rate-limited on every attempt is requested exactly 6
\* times, with waits of 2 s, 4 s, 8 s, 16 s, 32 s before the retries and
\* nothing after the 6th failure; the call then returns, without throwing,
\* the records of the pages before it.  (SpecDrain)
C3_RateLimitGivesUpAfterFiveRetries ==
    req[1].outcome = "partial" =>
        LET n == Len(attempts)
            cursor == attempts[n] IN
        /\ n >= 6
        /\ \A i \in (n - 5)..n : attempts[i] = cursor
        /\ n > 6 => attempts[n - 6] # cursor
        /\ Len(waits) = n - 1
        /\ SubSeq(waits, n - 5, n - 1) = <<2000, 4000, 8000, 16000, 32000>>
        /\ returned = Some(Flatten(SubSeq(upstream, 1, PageIndex(cursor) - 1)))
        /\ thrown = Null

C3_Witness ==
    /\ req[1].outcome = "partial"
    /\ lastError = Some(HttpError(429, FALSE))
    /\ Len(attempts) = 7
    /\ returned = Some(<<"m1", "m2">>)

\* C4: a page request that fails with anything but an upstream status 429
\* makes the drain throw at once: no retry, nothing returned.  (SpecDrain)
C4_OtherFailureAborts ==
    (lastError # Null /\ Val(lastError).status # 429) =>
        /\ req[1].outcome = "aborted"
        /\ thrown = lastError
        /\ returned = Null

\* C5: a GET /api/meetings is answered from the cache exactly when a slot
\* exists and the request time minus fetchedAt is below 5 minutes, and then
\* with the stored records in the stored order; otherwise it is a miss and
\* starts a drain, also when the slot is still populated.  (Spec)
C5_ServedIffFresh ==
    [][\A r \in Requests : Arrives(r) =>
          LET fresh == /\ meetingsCache # Null
                       /\ cacheTimestamp # Null
                       /\ clock - Val(cacheTimestamp) < 5 * 60 * 1000 IN
          /\ (req'[r].source = "cache") <=> fresh
          /\ fresh => /\ req'[r].pc = "done"
                      /\ req'[r].status = 200
                      /\ req'[r].body = Val(meetingsCache)
          /\ ~fresh => req'[r].pc = "fetch"
          /\ UNCHANGED <<meetingsCache, cacheTimestamp>>]_vars

\* a request found a populated slot aged exactly 5 minutes and is draining
C5_Witness ==
    \E r \in Requests :
        /\ req[r].pc = "fetch"
        /\ ~req[r].sawEmpty
        /\ meetingsCache # Null
        /\ req[r].now - Val(cacheTimestamp) = 5 * 60 * 1000

\* C6: the fetchedAt stored with a drain's result is the time of the write,
\* so a GET /api/meetings arriving right after the write is a cache hit,
\* however long the drain took.  (Spec)
C6_FreshRightAfterWrite ==
    [][\A r \in Requests :
          (req[r].pc = "fetch" /\ req'[r].source = "drain") =>
              /\ cacheTimestamp' # Null
              /\ clock' - Val(cacheTimestamp') < 5 * 60 * 1000]_vars

\* C7: the first GET /api/meetings to arrive after a completed
\* POST /api/cache/clear is a cache miss, in every interleaving.  (Spec)
C7_MissAfterClear ==
    [][\A r \in Requests :
          (Arrives(r) /\ clearedSinceGet) => req'[r].source # "cache"]_vars

\* C8 as stated: of two GET /api/meetings calls made within 1 second of
\* each other, the first starting from an empty cache and draining
\* successfully, the second is answered from the cache with the first's
\* body.  (Spec)
C8_SecondCallWithinASecondHits ==
    \A r1, r2 \in Requests :
        ( /\ r1 < r2
          /\ req[r1].sawEmpty
          /\ req[r1].source = "drain"
          /\ req[r2].pc = "done"
          /\ req[r2].now - req[r1].now < 1000 ) =>
        /\ req[r2].source = "cache"
        /\ req[r2].body = req[r1].body

\* C8 amended: the same, when the second call arrives after the first has
\* been answered and the slot the first wrote has been neither cleared nor
\* overwritten since: it is answered from the cache with the first's body
\* and starts no drain.  (Spec)
C8_SecondCallAfterAnswerHits ==
    [][\A r1, r2 \in Requests :
          ( /\ Arrives(r2)
            /\ writer = r1
            /\ req[r1].sawEmpty
            /\ clock - req[r1].now < 1000 ) =>
          /\ req'[r2].pc = "done"
          /\ req'[r2].source = "cache"
          /\ req'[r2].body = req[r1].body
          /\ UNCHANGED <<meetingsCache, cacheTimestamp>>]_vars

C8_Witness ==
    \E r1, r2 \in Requests :
        /\ r1 < r2
        /\ req[r1].sawEmpty
        /\ req[r1].source = "drain"
        /\ req[r2].source = "cache"
        /\ req[r2].now > req[r1].now
        /\ req[r2].now - req[r1].now < 1000
        /\ req[r2].body = <<"m1", "m2">>

\* C9: concurrent misses each run their own drain and answer with their own
\* list; the slot's records and timestamp always come from one request, the
\* one that wrote last, never from a merge of two drains.  (Spec)
C9_SlotIsLastWritersAnswer ==
    /\ writer = 0 <=> meetingsCache = Null
    /\ writer # 0 =>
          /\ req[writer].source = "drain"
          /\ meetingsCache = Some(req[writer].body)
          /\ cacheTimestamp = Some(req[writer].now)
    /\ \A r \in Requests :
          req[r].source = "drain" =>
              /\ req[r].outcome = "complete" => req[r].body = <<"m1", "m2">>
              /\ req[r].outcome = "partial" => req[r].body = <<>>

\* both requests missed and drained; the one that arrived first wrote last
C9_Witness ==
    /\ \A r \in Requests : req[r].source = "drain"
    /\ req[1].now < req[2].now
    /\ req[1].body # req[2].body
    /\ writer = 1
    /\ cacheTimestamp = Some(req[1].now)

\* the decimal representation of an integer: an optional minus sign and
\* one or more decimal digits
IsDecimalInteger(s) ==
    LET digits == IF s # <<>> /\ Head(s) = "-" THEN Tail(s) ELSE s IN
    /\ digits # <<>>
    /\ \A i \in 1..Len(digits) : IsDigit(digits[i], 10)

\* C10: an id that is not the decimal representation of an integer is
\* answered 400 with the id echoed and no upstream request; an upstream
\* transcript request is made only for integer ids.  (SpecTranscript)
C10_NonIntegerIdRejected ==
    (tr.pc # "idle" /\ ~IsDecimalInteger(tr.id)) =>
        /\ tr.status = 400
        /\ tr.recording_id = Some(tr.id)
        /\ tr.requested = Null

\* C11: for an integer id the answer follows from the single upstream call:
\* an upstream 404 gives 404 with the id echoed, every other failure (429
\* included, a network failure too) gives 500 with error and message, and
\* a body {transcript: t} with non-empty t gives 200 {transcript: t}.
\* (SpecTranscript)
C11_TranscriptOutcomeFollowsUpstream ==
    (tr.pc = "done" /\ IsDecimalInteger(tr.id)) =>
        /\ (tr.failure = Null) # (tr.answer = Null)
        /\ tr.failure # Null =>
              IF Val(tr.failure).status = 404
              THEN tr.status = 404 /\ tr.recording_id = Some(tr.id)
              ELSE tr.status = 500 /\ tr.message /\ tr.transcript = Null
        /\ \A t \in TranscriptTexts \ {""} :
              tr.answer = Some([shape |-> "transcript", text |-> t]) =>
                  /\ tr.status = 200
                  /\ tr.transcript = Some([whole |-> FALSE, text |-> t])

C11_Witness ==
    /\ tr.pc = "done"
    /\ IsDecimalInteger(tr.id)
    /\ tr.failure = Some(HttpError(429, FALSE))
    /\ tr.status = 500

C13_AbortStatusFollowsError ==
    req[1].pc = "done" =>
        /\ thrown # Null =>
              /\ req[1].status = IF Val(thrown).status # 0 THEN Val(thrown).status ELSE 500
              /\ req[1].source = "error"
              /\ req[1].message = Val(thrown).message
              /\ req[1].body = <<>>
        /\ req[1].outcome = "partial" =>
              /\ thrown = Null
              /\ returned # Null
              /\ req[1].status = 200
              /\ req[1].body = SerializeAll(Val(returned))

C13_Witness ==
    /\ req[1].pc = "done"
    /\ thrown = Some(HttpError(503, FALSE))
    /\ req[1].status = 503

\* the records of a list that are not null, in the order of the list
RECURSIVE WithoutNulls(_)
WithoutNulls(list) ==
    IF list = <<>> THEN <<>>
    ELSE IF Head(list) = JsNull THEN WithoutNulls(Tail(list))
    ELSE <<Head(list)>> \o WithoutNulls(Tail(list))

\* C14: neither a list answered by GET /api/meetings nor the cached list
\* holds a null entry; an answer built from a drain is the drain's result
\* with the nulls removed, the other records unchanged and in the same
\* order.  (Spec)
C14_NoNullInAnswerOrCache ==
    /\ meetingsCache # Null =>
          /\ \A i \in 1..Len(Val(meetingsCache)) : Val(meetingsCache)[i] # JsNull
          /\ \E k \in 0..Len(upstream) :
                Val(meetingsCache) = WithoutNulls(Flatten(SubSeq(upstream, 1, k)))
    /\ \A r \in Requests :
          req[r].status = 200 =>
              /\ \A i \in 1..Len(req[r].body) : req[r].body[i] # JsNull
              /\ req[r].outcome = "complete" =>
                    req[r].body = WithoutNulls(Flatten(upstream))

C14_Witness ==
    /\ \E p \in 1..Len(upstream) : \E i \in 1..Len(upstream[p]) : upstream[p][i] = JsNull
    /\ \E r \in Requests :
          /\ req[r].outcome = "complete"
          /\ req[r].body = <<"m1", "m2">>
          /\ meetingsCache = Some(req[r].body)

\* C15: a retry after a rate-limit error asks for the same cursor again and
\* the failed attempt appends nothing; the cursor moves on only after a
\* successful page, so the list holds the items of every successful page
\* exactly once, in page order.  (SpecDrain)
C15_RetryKeepsCursorAndList ==
    /\ attempts # <<>> => Len(attempts) = Len(waits) + 1
    /\ \A i \in 1..Len(waits) :
          IF waits[i] = INTER_PAGE_DELAY
          THEN PageIndex(attempts[i + 1]) = PageIndex(attempts[i]) + 1
          ELSE attempts[i + 1] = attempts[i]
    /\ req[1].pc = "fetch" =>
          /\ req[1].cursor = attempts[Len(attempts)]
          /\ req[1].allMeetings =
                Flatten(SubSeq(upstream, 1, PageIndex(req[1].cursor) - 1))
    /\ returned # Null =>
          Val(returned) =
              Flatten(SubSeq(upstream, 1,
                             IF req[1].outcome = "complete"
                             THEN PageIndex(attempts[Len(attempts)])
                             ELSE PageIndex(attempts[Len(attempts)]) - 1))

\* the second page was rate-limited, retried, and then arrived
C15_Witness ==
    /\ req[1].outcome = "complete"
    /\ Len(upstream) = 2
    /\ upstream[1] # <<>> /\ upstream[2] # <<>>
    /\ attempts = <<0, 2, 2>>
    /\ returned = Some(upstream[1] \o upstream[2])

\* C19: the retry count is 0 after every successful page, so each page has
\* its own budget of 5 retries; the count stays within 0..6 (6 only at the
\* moment the drain gives up); every backoff wait is 2^k seconds with k in
\* 1..5, k being the number of rate-limit errors on the page so far.
\* (SpecDrain)
C19_RetryCountPerPage ==
    /\ req[1].retryCount \in 0..maxRetries
    /\ AfterRateLimit(req[1]).retryCount \in 1..(maxRetries + 1)
    /\ \A i \in 1..Len(waits) :
          \/ waits[i] = INTER_PAGE_DELAY
          \/ \E k \in 1..5 :
                /\ waits[i] = Pow2(k) * 1000
                /\ IF k = 1
                   THEN i = 1 \/ waits[i - 1] = INTER_PAGE_DELAY
                   ELSE i > 1 /\ waits[i - 1] = Pow2(k - 1) * 1000
    /\ req[1].pc = "fetch" =>
          IF waits = <<>> \/ waits[Len(waits)] = INTER_PAGE_DELAY
          THEN req[1].retryCount = 0
          ELSE waits[Len(waits)] = Pow2(req[1].retryCount) * 1000

\* both pages were rate-limited, the second more often than the first, and
\* the drain still completed
C19_Witness ==
    /\ req[1].outcome = "complete"
    /\ waits = <<2000, 4000, 500, 2000, 4000, 8000, 16000, 32000>>

\* the number of requests at the end of the log that carry the same cursor
RECURSIVE SameCursorRun(_)
SameCursorRun(log) ==
    IF Len(log) <= 1 THEN Len(log)
    ELSE IF log[Len(log)] = log[Len(log) - 1]
    THEN 1 + SameCursorRun(SubSeq(log, 1, Len(log) - 1))
    ELSE 1

\* the drain has ended, in exactly one of the three ways
C20_Ended ==
    /\ req[1].pc = "done"
    /\ \/ /\ req[1].outcome = "complete"
          /\ returned # Null /\ thrown = Null
          /\ NextCursor(attempts[Len(attempts)]) = 0
       \/ /\ req[1].outcome = "partial"
          /\ returned # Null /\ thrown = Null
          /\ SameCursorRun(attempts) = maxRetries + 1
       \/ /\ req[1].outcome = "aborted"
          /\ returned = Null /\ thrown # Null
          /\ ~IsRateLimit(Val(thrown))

C16_SdkPagesOnce ==
    sdk.returned # Null =>
        Val(sdk.returned) = Flatten(SubSeq(upstream, 1, sdk.response))

\* C17: in the SDK-based server a 429 on the very first request is retried
\* like a 429 on a later page and, with the retries used up, gives an empty
\* list: fetchAllMeetings never throws an error of status 429.  (SpecSdk)
C17_SdkFirstPageRetried ==
    sdk.thrown # Null => Val(sdk.thrown).status # 429

\* C18: in the simple server of the README a non-success answer to the
\* request for a page after the first aborts the drain with an error that
\* reaches GET /api/meetings: the truncated list is neither answered with
\* 200 nor stored in the cache.  (SpecSimple)
C18_SimpleLaterPageFailureAborts ==
    simple.failedPage > 1 =>
        /\ simple.status # 200
        /\ meetingsCache = Null

\* the number of inter-page delays in a log of waits
RECURSIVE PageWaits(_)
PageWaits(log) ==
    IF log = <<>> THEN 0
    ELSE (IF Head(log) = INTER_PAGE_DELAY THEN 1 ELSE 0) + PageWaits(Tail(log))

\* C21: the drain waits 500 ms after every successful page that carries a
\* cursor, before it requests the next page; it does not wait before the
\* first request nor after the page without a cursor, and a retry after a
\* rate-limit error is preceded by its backoff wait only.  (SpecDrain)
C21_InterPageDelay ==
    /\ attempts = <<>> => waits = <<>>
    /\ attempts # <<>> => Len(waits) = Len(attempts) - 1
    /\ \A i \in 1..Len(waits) :
          IF i + 1 <= Len(attempts) /\ attempts[i + 1] # attempts[i]
          THEN waits[i] = INTER_PAGE_DELAY
          ELSE waits[i] = BackoffWait(SameCursorRun(SubSeq(attempts, 1, i)))
    /\ req[1].pc = "fetch" => PageWaits(waits) = PageIndex(req[1].cursor) - 1
    /\ req[1].outcome = "complete" => PageWaits(waits) = Len(upstream) - 1

\* two pages, the second one rate-limited once
C21_Witness ==
    /\ req[1].outcome = "complete"
    /\ Len(upstream) = 2
    /\ waits = <<500, 2000>>

\* a field holds a value: it is there and is not null
Present(x) == x.t \notin {"undefined", "null"}

\* the items of a body by the first shape that matches: the body is a list,
\* its items field, its data field when a list, data.items; else none
ShapeItems(body) ==
    IF body.t = "array" THEN body.v
    ELSE IF Present(body.items) THEN body.items.v
    ELSE IF body.data.t = "array" THEN body.data.v
    ELSE IF Present(body.data.items) THEN body.data.items.v
    ELSE <<>>

\* C22: for every body of a successful answer the page's items come from
\* the first matching shape, in the order: the body is a list, items, data
\* when a list, data.items; when no shape matches the page adds nothing and
\* the iteration goes on to the cursor instead of failing.  (SpecPage)
C22_ItemsFromFirstShape ==
    loop.pc = "done" =>
        /\ ~loop.thrown
        /\ loop.allMeetings = <<"m0">> \o ShapeItems(loop.body)

\* the first of a list of string fields that holds a non-empty value
RECURSIVE FirstPresent(_)
FirstPresent(fields) ==
    IF fields = <<>> THEN "none"
    ELSE IF Head(fields) \in {"undefined", "null", ""} THEN FirstPresent(Tail(fields))
    ELSE Head(fields)

\* the three places of a cursor in a body, in their order
CursorFields(body) ==
    <<body.next_cursor, body.cursor,
      IF body.pagination.t = "object" THEN body.pagination.next_cursor ELSE "undefined">>

\* C23: the next cursor is the first present value among next_cursor,
\* cursor, pagination.next_cursor; the drain goes on exactly when there is
\* one, and the next query then carries that value as its only cursor
\* parameter, with the filter parameters unchanged.  (SpecPage)
C23_CursorFromFirstField ==
    (loop.pc = "done" /\ ~loop.thrown) =>
        LET c == FirstPresent(CursorFields(loop.body)) IN
        /\ loop.hasMore <=> c # "none"
        /\ loop.query.filters = loop.query0.filters
        /\ IF loop.hasMore
           THEN loop.cursor = c /\ loop.query.cursor = <<c>>
           ELSE loop.query = loop.query0

\* an empty next_cursor, a cursor, and a pagination.next_cursor: the second
\* one replaces the cursor of the request before
C23_Witness ==
    /\ loop.pc = "done"
    /\ loop.body.next_cursor = "" /\ loop.body.cursor = "k1"
    /\ loop.body.pagination.next_cursor = "p1"
    /\ loop.query0 = [filters |-> <<"teams=sales">>, cursor |-> <<"c0">>]
    /\ loop.query = [filters |-> <<"teams=sales">>, cursor |-> <<"k1">>]

\* the step in which GET /api/health is answered
HealthAnswers == health.pc = "idle" /\ health'.pc = "done"

\* the step in which POST /api/cache/clear empties a slot a handler wrote
ClearsWrittenSlot == writer # 0 /\ writer' = 0 /\ clearedSinceGet'

\* C24: GET /api/health changes neither the slot nor its timestamp and asks
\* the upstream nothing; it reports hasCache = the slot is non-empty (a
\* stale slot too), cacheSize = the number of records in the slot (0 when
\* empty), cacheAge = the whole seconds since fetchedAt (null when empty);
\* right after POST /api/cache/clear that is false, 0, null.  (SpecHealth)
C24_HealthReadsOnly ==
    [][/\ HealthAnswers =>
              /\ UNCHANGED <<meetingsCache, cacheTimestamp, req, attempts, clock>>
              /\ health'.hasCache = (meetingsCache # Null)
              /\ health'.cacheSize = (IF meetingsCache = Null THEN 0
                                      ELSE Len(Val(meetingsCache)))
              /\ IF meetingsCache = Null
                 THEN health'.cacheAge = Null
                 ELSE /\ health'.cacheAge # Null
                      /\ Val(health'.cacheAge) * 1000 <= clock - Val(cacheTimestamp)
                      /\ clock - Val(cacheTimestamp) < (Val(health'.cacheAge) + 1) * 1000
       /\ ClearsWrittenSlot =>
              /\ meetingsCache' = Null /\ cacheTimestamp' = Null
              /\ HealthCache(meetingsCache', cacheTimestamp', clock') =
                     [hasCache |-> FALSE, cacheSize |-> 0, cacheAge |-> Null]
      ]_vars

\* a health answer on a slot that is exactly CACHE_TTL old, no longer fresh
C24_Witness ==
    /\ health.pc = "done"
    /\ health.hasCache /\ health.cacheSize = 2
    /\ health.cacheAge = Some(300)
    /\ meetingsCache # Null /\ ~CacheFresh(clock)

\* C25: a GET /api/meetings whose drain aborts with an error leaves the
\* slot and its timestamp as they are: a slot written before, stale or not,
\* is neither emptied nor overwritten, and an empty slot stays empty.
\* (Spec)
C25_AbortLeavesSlot ==
    [][\A r \in Requests :
          (req[r].pc = "fetch" /\ req'[r].outcome = "aborted") =>
              /\ UNCHANGED <<meetingsCache, cacheTimestamp>>
              /\ req'[r].source = "error"]_vars

\* a request that found a stale slot has aborted, and the slot is still
\* the stale one
C25_Witness ==
    \E r \in Requests :
        /\ req[r].outcome = "aborted"
        /\ ~req[r].sawEmpty
        /\ meetingsCache # Null
        /\ writer # 0 /\ writer # r
        /\ req[r].now - Val(cacheTimestamp) >= CACHE_TTL

\* C26: a GET /api/meetings answered from the cache sends nothing to the
\* upstream and leaves the slot and its timestamp unchanged; a read does
\* not renew the slot, so a slot written with time t is served only to
\* requests that arrive before t + 5 minutes.  (Spec)
C26_HitLeavesSlot ==
    [][\A r \in Requests :
          (Arrives(r) /\ req'[r].source = "cache") =>
              /\ UNCHANGED <<meetingsCache, cacheTimestamp, writer>>
              /\ req'[r].pc = "done"
              /\ writer # 0
              /\ cacheTimestamp = Some(req[writer].now)
              /\ req'[r].now < req[writer].now + CACHE_TTL]_vars

\* a slot that was read from is stale 5 minutes after the time it carries
C26_Witness ==
    \E r \in Requests :
        /\ req[r].source = "cache"
        /\ meetingsCache # Null
        /\ writer # 0 /\ writer # r
        /\ cacheTimestamp = Some(req[writer].now)
        /\ clock = req[writer].now + CACHE_TTL
        /\ ~CacheFresh(clock)

\* C27: with no clear in between, every write to the slot stores a
\* timestamp that is at least the timestamp it replaces, in every
\* interleaving of concurrent GET /api/meetings requests.  (Spec)
C27_TimestampNeverGoesBack ==
    [][(cacheTimestamp # Null /\ cacheTimestamp' # Null) =>
          Val(cacheTimestamp') >= Val(cacheTimestamp)]_vars

\* C28: meetingsCache is null exactly when cacheTimestamp is null, in every
\* reachable state: the two are written in one step, by the handler of
\* GET /api/meetings and by POST /api/cache/clear.  (Spec)
C28_SlotAndStampTogether ==
    (meetingsCache = Null) <=> (cacheTimestamp = Null)

\* a slot that was written and then cleared
C28_Witness ==
    /\ meetingsCache = Null /\ cacheTimestamp = Null
    /\ clearedSinceGet
    /\ \E r \in Requests : req[r].source = "drain"

====
